---- MODULE Spec2Model ----
(***************************************************************************)
(* communitybot: the block ingestion / checkpoint loop of                  *)
(* TransactionListener.run, the recursive fetch retry of process_block,    *)
(* the comment scan of check_block and the welcome command of              *)
(* handle_command / upvote, together with the two files (checkpoint,       *)
(* state) and the two tables (welcome, upvote) they read and write.        *)
(***************************************************************************)
EXTENDS Integers, Sequences, FiniteSets, TLC

(* ------------------------------ bounds --------------------------------- *)
\* chain head when the model starts; blocks FirstHead+1 .. MaxHead arrive later
FirstHead == 8
\* number of blocks that can be appended to the chain
NumBlocks == 2
\* number of times the process can be started (first start plus restarts)
MaxRuns == 2

MaxHead == FirstHead + NumBlocks
Blocks == (FirstHead + 1) .. MaxHead

(* ------------------- str() / int() of the checkpoint ------------------- *)
Digits == <<"0", "1", "2", "3", "4", "5", "6", "7", "8", "9">>

DigitVal(c) == CHOOSE d \in 0..9 : Digits[d + 1] = c

\* a str() that loses every digit but the last
StrDrop(n) == <<Digits[(n % 10) + 1]>>

RECURSIVE Str(_)
\* str(block_num): the decimal text of a non-negative integer
Str(n) == IF n < 10 THEN <<Digits[n + 1]>>
          ELSE Str(n \div 10) \o <<Digits[(n % 10) + 1]>>

RECURSIVE ParseInt(_)
\* int(text) for a non-empty text of decimal digits
ParseInt(s) == IF Len(s) = 1 THEN DigitVal(s[1])
               ELSE 10 * ParseInt(SubSeq(s, 1, Len(s) - 1)) + DigitVal(s[Len(s)])

\* json.dumps of the chain properties (the head block number is all the model keeps)
JsonDumps(props) == <<"{">> \o Str(props) \o <<"}">>

\* a file of the configuration directory: missing, or present with a text
NoFile == [exists |-> FALSE, text |-> <<>>]
\* open(path, 'w+'): the file exists and is empty until the write is flushed
Truncated == [exists |-> TRUE, text |-> <<>>]
Written(t) == [exists |-> TRUE, text |-> t]

(* --------------------------- configuration ----------------------------- *)
\* config["account"]
Account == <<"b", "o", "t">>
\* config["blacklisted_users"]
BlacklistedUsers == {"mallory"}
\* characters matched by \s
Whitespace == {" ", "\t", "\n"}
\* the command token of the pattern
Welcome == <<"w", "e", "l", "c", "o", "m", "e">>

(* --------------------------- comment bodies ---------------------------- *)
BodyWelcome == <<"@", "b", "o", "t", " ", "!", "w", "e", "l", "c", "o", "m", "e">>
BodyHello == <<"h", "e", "l", "l", "o", " ">> \o BodyWelcome
                 \o <<" ", "f", "r", "i", "e", "n", "d">>
BodyNoSpace == <<"@", "b", "o", "t", "!", "w", "e", "l", "c", "o", "m", "e">>
BodyNoBang == <<"@", "b", "o", "t", " ", "w", "e", "l", "c", "o", "m", "e">>
BodyTab == <<"@", "b", "o", "t", "\t", "!", "w", "e", "l", "c", "o", "m", "e">>
BodyPlain == <<"h", "i">>

\* needle occurs in text starting at position i
OccursAt(needle, text, i) ==
    /\ i >= 1
    /\ i + Len(needle) - 1 <= Len(text)
    /\ SubSeq(text, i, i + Len(needle) - 1) = needle

\* "@" + self.account in post["body"]
Mentions(body) ==
    \E i \in 1..Len(body) : OccursAt(<<"@">> \o Account, body, i)

\* the pattern with \s* in place of \s
MatchesWelcomeOptional(body) ==
    \E i \in 1..Len(body) : \E k \in 0..Len(body) :
        LET n == Len(Account) + 1 IN
        /\ OccursAt(<<"@">> \o Account, body, i)
        /\ i + n + k - 1 <= Len(body)
        /\ \A j \in 0..(k - 1) : body[i + n + j] \in Whitespace
        /\ OccursAt(<<"!">> \o Welcome, body, i + n + k)

\* re.findall("@%s\s!(welcome)" % self.account, post["body"]) is non-empty
MatchesWelcome(body) ==
    \E i \in 1..Len(body) :
        LET n == Len(Account) + 1 IN
        /\ OccursAt(<<"@">> \o Account, body, i)
        /\ i + n <= Len(body)
        /\ body[i + n] \in Whitespace
        /\ OccursAt(<<"!">> \o Welcome, body, i + n + 1)

(* ------------------------- posts on the chain -------------------------- *)
\* the posts a comment's root_identifier can name
PostIds == {"p1", "p2", "p3", "gone"}

\* what Post(identifier) yields: exists = FALSE stands for PostDoesNotExist
PostData ==
    [p \in PostIds |->
        CASE p = "p1" -> [author |-> "carol", permlink |-> "intro", exists |-> TRUE, main |-> TRUE]
          [] p = "p2" -> [author |-> "dave", permlink |-> "re-intro", exists |-> TRUE, main |-> FALSE]
          [] p = "p3" -> [author |-> "carol", permlink |-> "second", exists |-> TRUE, main |-> TRUE]
          [] p = "gone" -> [author |-> "erin", permlink |-> "deleted", exists |-> FALSE, main |-> TRUE]]

\* a comment operation: kind says what Post(raw_data) is (a reply, a main post,
\* or a post that does not exist any more)
Comment(author, body, root, kind) ==
    [type |-> "comment", author |-> author, body |-> body, root |-> root, kind |-> kind]

\* an operation of another type
OtherOp == [type |-> "vote", author |-> "alice", body |-> <<>>, root |-> "p1", kind |-> "reply"]

(* ------------------------- blocks of the chain ------------------------- *)
Block(ops) == [transactions |-> TRUE, ops |-> ops]

\* a blacklisted author's command, then the same command from another author
BlkBlacklisted == Block(<<Comment("mallory", BodyHello, "p1", "reply"),
                          Comment("alice", BodyWelcome, "p1", "reply")>>)
\* a command whose root post is gone, then a command on another post
BlkGone == Block(<<Comment("alice", BodyWelcome, "gone", "reply"),
                   Comment("alice", BodyHello, "p3", "reply")>>)
\* operations check_block or the pattern pass over, a command on a subject that
\* is not a main post, a command on a second post of p1's author, and a further
\* command on the subject that is not a main post
BlkMixed == Block(<<OtherOp,
                    Comment("alice", BodyWelcome, "p1", "main"),
                    Comment("alice", BodyWelcome, "p1", "deleted"),
                    Comment("alice", BodyNoBang, "p1", "reply"),
                    Comment("alice", BodyNoSpace, "p1", "reply"),
                    Comment("alice", BodyPlain, "p1", "reply"),
                    Comment("alice", BodyWelcome, "p2", "reply"),
                    Comment("alice", BodyTab, "p3", "reply"),
                    Comment("alice", BodyHello, "p2", "reply")>>)
\* a block whose data has no 'transactions' key
BlkNoTx == [transactions |-> FALSE, ops |-> <<>>]

BlockSet == {BlkBlacklisted, BlkGone, BlkMixed, BlkNoTx}

\* the chains the model starts from: every block one of BlockSet, no two alike
ChainSet == {f \in [Blocks -> BlockSet] : \A a, b \in Blocks : a # b => f[a] # f[b]}

\* what steem.get_block can return: None or an empty dict (both falsy), or the block
FalsyResults == {"None", "EmptyDict"}
FetchResults == FalsyResults \cup {"Block"}
Falsy(r) == r \in FalsyResults
\* a block the chain does not have yet is never there
Fetchable(n) == IF n \in Blocks THEN FetchResults ELSE FalsyResults

(* ------------------------------- state --------------------------------- *)
VARIABLES
    head,             \* head_block_number the ledger last reported
    chain,            \* the immutable content of each block
    checkpoint_file,  \* ~/.communitybot/checkpoint
    state_file,       \* ~/.communitybot/state
    welcome,          \* rows of the welcome table, counted per post
    upvote,           \* rows of the upvote table (set of posts)
    replies,          \* replies submitted, per subject post
    votes,            \* votes submitted, per subject post
    pc,               \* position of the process
    exc,              \* how the process last stopped
    runs,             \* number of starts of the process
    fallback,         \* fallback_block_num handed to load_checkpoint
    last_block,       \* run's last_block
    retry_count,      \* retry_count of the innermost process_block frame
    attempts,         \* get_block calls made for last_block since run handed it over
    gave_up,          \* 'Retried 3 times ... Skipping.' was logged for last_block
    idx,              \* position of check_block in the operations
    props,            \* self.properties handed to dump_state
    reply_ok,         \* outcome of the last reply submission
    vote_ok,          \* outcome of the last vote submission
    processed,        \* number of times run handed each block to process_block
    run_start,        \* the checkpoint load_checkpoint returned to this run
    run_blocks,       \* the blocks this run handed to process_block, in order
    committed,        \* the last checkpoint value completely written before the current one
    seed              \* the fallback head the checkpoint file was created with

durable == <<head, chain, checkpoint_file, state_file, welcome, upvote, replies, votes>>
locals == <<fallback, last_block, retry_count, attempts, gave_up, idx, props,
            reply_ok, vote_ok>>
history == <<processed, run_start, run_blocks, committed, seed>>
vars == <<durable, pc, exc, runs, locals, history>>

\* what self.last_block_num (get_dynamic_global_properties) can report: the
\* ledger is append-only, so never less than it reported before
HeadReads == head .. MaxHead

\* the operations of the block being checked (steem.get_ops_in_block)
Ops == IF last_block \in Blocks THEN chain[last_block].ops ELSE <<>>
\* the operation check_block is looking at
CurOp == Ops[idx]
\* main_post = Post(post.root_identifier)
MainPost == PostData[CurOp.root]

\* a handle_command that takes every subject for a root post
AlwaysMainPost(post) == TRUE

\* main_post.is_main_post()
IsMainPost(post) == post.main

(* ----------------------------- decisions ------------------------------- *)
RetryExhausted(count) == count > 3

\* an increment that steps over a block
NextBlockSkip(n) == n + 2
\* last_block += 1
NextBlock(n) == n + 1

\* a loop condition that is off by one
LoopCondInclusive(last_head, last) == (last_head - last) >= 0
LoopCond(last_head, last) == (last_head - last) > 0

\* a blacklist check that lets everyone through
NotBlacklisted(author) == FALSE
\* post["author"] in self.config["blacklisted_users"]
Blacklisted(author) == author \in BlacklistedUsers

\* a welcome lookup that never finds a record
NeverWelcomed(author) == FALSE
\* self.get_table('welcome').find_one(author=main_post["author"])
AlreadyWelcomed(author) ==
    \E p \in PostIds : PostData[p].author = author /\ welcome[p] > 0

\* self.get_table('upvote').find_one(author=..., permlink=...)
\* an upvote that never finds a record
NeverUpvoted(p) == FALSE

AlreadyUpvoted(p) == p \in upvote

\* check_block's filter in front of handle_command
IsAddressedComment(op) ==
    /\ op.type = "comment"
    /\ op.kind = "reply"
    /\ Mentions(op.body)

(* ------------------------------- Init ---------------------------------- *)
Init ==
    /\ head = FirstHead
    /\ chain \in ChainSet
    /\ checkpoint_file = NoFile
    /\ state_file = NoFile
    /\ welcome = [p \in PostIds |-> 0]
    /\ upvote = {"p3"}
    /\ replies = [p \in PostIds |-> 0]
    /\ votes = [p \in PostIds |-> 0]
    /\ pc = "stopped"
    /\ exc = "none"
    /\ runs = 0
    /\ fallback = 0
    /\ last_block = 0
    /\ retry_count = 0
    /\ attempts = 0
    /\ gave_up = FALSE
    /\ idx = 0
    /\ props = 0
    /\ reply_ok = FALSE
    /\ vote_ok = FALSE
    /\ processed = [n \in Blocks |-> 0]
    /\ run_start = 0
    /\ run_blocks = <<>>
    /\ committed = -1
    /\ seed = -1

\* the process ends: killed from outside, or by an exception nothing catches
Exit(e) ==
    /\ pc' = "stopped"
    /\ exc' = e
    /\ fallback' = 0
    /\ last_block' = 0
    /\ retry_count' = 0
    /\ attempts' = 0
    /\ gave_up' = FALSE
    /\ idx' = 0
    /\ props' = 0
    /\ reply_ok' = FALSE
    /\ vote_ok' = FALSE
    /\ run_start' = 0
    /\ run_blocks' = <<>>
    /\ UNCHANGED <<durable, runs, processed, committed, seed>>

(* ------------------------------ startup -------------------------------- *)
\* listen -> run(start_from=None): the fallback argument self.last_block_num
\* is evaluated before load_checkpoint is entered
Start ==
    /\ pc = "stopped"
    /\ runs < MaxRuns
    /\ runs' = runs + 1
    /\ pc' = "load_checkpoint"
    /\ exc' = "none"
    /\ \E h \in HeadReads : head' = h /\ fallback' = h
    /\ UNCHANGED <<chain, checkpoint_file, state_file, welcome, upvote, replies, votes,
                   last_block, retry_count, attempts, gave_up, idx, props,
                   reply_ok, vote_ok, history>>

\* load_checkpoint: int(open(CHECKPOINT).read()); a missing file is seeded with
\* the fallback and read again, an empty file makes int('') raise ValueError
LoadCheckpoint ==
    /\ pc = "load_checkpoint"
    /\ \/ /\ ~checkpoint_file.exists
          /\ pc' = "seed_open"
          /\ UNCHANGED <<durable, exc, runs, locals, history>>
       \/ /\ checkpoint_file.exists
          /\ checkpoint_file.text = <<>>
          /\ Exit("ValueError")
       \/ /\ checkpoint_file.exists
          /\ checkpoint_file.text # <<>>
          /\ last_block' = ParseInt(checkpoint_file.text)
          /\ run_start' = ParseInt(checkpoint_file.text)
          /\ pc' = "loop"
          /\ UNCHANGED <<durable, exc, runs, fallback, retry_count, attempts, gave_up, idx,
                         props, reply_ok, vote_ok, processed, run_blocks, committed, seed>>

\* dump_checkpoint, first half: open(CHECKPOINT, 'w+') truncates the file
OpenCheckpoint ==
    /\ pc \in {"seed_open", "checkpoint_open"}
    /\ committed' = IF checkpoint_file.exists /\ checkpoint_file.text # <<>>
                      THEN ParseInt(checkpoint_file.text) ELSE committed
    /\ checkpoint_file' = Truncated
    /\ pc' = IF pc = "seed_open" THEN "seed_write" ELSE "checkpoint_write"
    /\ UNCHANGED <<head, chain, state_file, welcome, upvote, replies, votes,
                   exc, runs, locals, processed, run_start, run_blocks, seed>>

\* dump_checkpoint, second half: f.write(str(block_num)); f.close()
WriteCheckpoint ==
    /\ pc \in {"seed_write", "checkpoint_write"}
    /\ checkpoint_file' = Written(Str(IF pc = "seed_write" THEN fallback ELSE last_block))
    /\ pc' = IF pc = "seed_write" THEN "load_checkpoint" ELSE "loop"
    /\ seed' = IF pc = "seed_write" THEN fallback ELSE seed
    /\ UNCHANGED <<head, chain, state_file, welcome, upvote, replies, votes,
                   exc, runs, locals, processed, run_start, run_blocks, committed>>

(* ------------------------------ run loop ------------------------------- *)
\* while (self.last_block_num - last_block) > 0: last_block += 1;
\* self.process_block(last_block)
LoopCheck ==
    /\ pc = "loop"
    /\ \E h \in HeadReads : head' = h
    /\ IF LoopCond(head', last_block)
         THEN /\ last_block' = NextBlock(last_block)
              /\ pc' = "get_block"
              /\ processed' = [n \in Blocks |->
                                 IF n = NextBlock(last_block) THEN processed[n] + 1
                                 ELSE processed[n]]
              /\ run_blocks' = Append(run_blocks, NextBlock(last_block))
         ELSE /\ pc' = "sleep"
              /\ UNCHANGED <<last_block, processed, run_blocks>>
    /\ UNCHANGED <<chain, checkpoint_file, state_file, welcome, upvote, replies, votes,
                   exc, runs, fallback, retry_count, attempts, gave_up, idx, props,
                   reply_ok, vote_ok, run_start, committed, seed>>

\* time.sleep(self.block_interval), then the loop condition again
Sleep ==
    /\ pc = "sleep"
    /\ pc' = "loop"
    /\ UNCHANGED <<durable, exc, runs, locals, history>>

(* ---------------------------- process_block ---------------------------- *)
\* block_data = self.steem.get_block(block_num); a falsy result either gives
\* up (retry_count > 3, return) or re-enters process_block with retry_count + 1
GetBlock ==
    /\ pc = "get_block"
    /\ \E r \in Fetchable(last_block) :
        /\ attempts' = attempts + 1
        /\ IF Falsy(r)
             THEN IF RetryExhausted(retry_count)
                    THEN /\ gave_up' = TRUE
                         /\ pc' = "return"
                         /\ UNCHANGED <<retry_count, idx>>
                    ELSE /\ retry_count' = retry_count + 1
                         /\ pc' = "get_block"
                         /\ UNCHANGED <<gave_up, idx>>
             ELSE IF ~chain[last_block].transactions
                    THEN /\ pc' = "return"
                         /\ UNCHANGED <<retry_count, gave_up, idx>>
                    ELSE /\ pc' = "check_block"
                         /\ idx' = 1
                         /\ UNCHANGED <<retry_count, gave_up>>
    /\ UNCHANGED <<durable, exc, runs, fallback, last_block, props,
                   reply_ok, vote_ok, history>>

\* a process_block frame returns.  With no caller frame left, run goes on to
\* dump_checkpoint(last_block).  Otherwise the frame that made the recursive
\* call goes on at line 104 with its own falsy block_data, and which falsy value
\* that is shows only here: 'transactions' not in None raises TypeError,
\* 'transactions' not in {} is true and that frame returns as well.
Return ==
    /\ pc = "return"
    /\ \/ /\ retry_count = 0
          /\ pc' = "checkpoint_open"
          /\ attempts' = 0
          /\ gave_up' = FALSE
          /\ idx' = 0
          /\ UNCHANGED <<durable, exc, runs, fallback, last_block, retry_count, props,
                         reply_ok, vote_ok, history>>
       \/ /\ retry_count > 0
          /\ \E block_data \in FalsyResults :
               \/ /\ block_data = "None"
                  /\ Exit("TypeError")
               \/ /\ block_data # "None"
                  /\ retry_count' = retry_count - 1
                  /\ pc' = "return"
                  /\ UNCHANGED <<durable, exc, runs, fallback, last_block, attempts,
                                 gave_up, idx, props, reply_ok, vote_ok, history>>

(* ------------------- check_block and handle_command -------------------- *)
\* one turn of check_block's loop, with handle_command up to its first side
\* effect; after the last operation process_block calls dump_state
CheckBlock ==
    /\ pc = "check_block"
    /\ \/ /\ idx > Len(Ops)
          /\ pc' = "state_open"
          /\ \E h \in HeadReads : head' = h /\ props' = h
          /\ UNCHANGED <<chain, checkpoint_file, state_file, welcome, upvote, replies,
                         votes, exc, runs, fallback, last_block, retry_count, attempts,
                         gave_up, idx, reply_ok, vote_ok, history>>
       \/ /\ idx <= Len(Ops)
          /\ \/ ~IsAddressedComment(CurOp)
             \/ Blacklisted(CurOp.author)
             \/ ~MatchesWelcome(CurOp.body)
             \/ MainPost.exists /\ AlreadyWelcomed(MainPost.author)
          /\ idx' = idx + 1
          /\ UNCHANGED <<durable, pc, exc, runs, fallback, last_block, retry_count, attempts,
                         gave_up, props, reply_ok, vote_ok, history>>
       \/ /\ idx <= Len(Ops)
          /\ IsAddressedComment(CurOp)
          /\ ~Blacklisted(CurOp.author)
          /\ MatchesWelcome(CurOp.body)
          /\ ~MainPost.exists
          /\ Exit("PostDoesNotExist")
       \/ /\ idx <= Len(Ops)
          /\ IsAddressedComment(CurOp)
          /\ ~Blacklisted(CurOp.author)
          /\ MatchesWelcome(CurOp.body)
          /\ MainPost.exists
          /\ ~AlreadyWelcomed(MainPost.author)
          /\ pc' = "reply"
          /\ UNCHANGED <<durable, exc, runs, locals, history>>

\* main_post.reply(body, author); the result is not looked at.  A subject that
\* is not a main post ends handle_command here.
Reply ==
    /\ pc = "reply"
    /\ replies' = [replies EXCEPT ![CurOp.root] = @ + 1]
    /\ IF IsMainPost(MainPost)
         THEN /\ pc' = "upvote"
              /\ \E ok \in BOOLEAN : reply_ok' = ok
              /\ UNCHANGED idx
         ELSE /\ pc' = "check_block"
              /\ reply_ok' = FALSE
              /\ idx' = idx + 1
    /\ UNCHANGED <<head, chain, checkpoint_file, state_file, welcome, upvote, votes,
                   exc, runs, fallback, last_block, retry_count, attempts,
                   gave_up, props, vote_ok, history>>

\* an upvote that records an accepted vote in the upvote table
UpvoteAndRecord ==
    /\ pc = "upvote"
    /\ IF CurOp.root \in upvote
         THEN /\ vote_ok' = TRUE
              /\ UNCHANGED <<votes, upvote>>
         ELSE /\ votes' = [votes EXCEPT ![CurOp.root] = @ + 1]
              /\ \E resp \in BOOLEAN :
                   /\ vote_ok' = resp
                   /\ upvote' = IF resp THEN upvote \cup {CurOp.root} ELSE upvote
    /\ pc' = "insert"
    /\ UNCHANGED <<head, chain, checkpoint_file, state_file, welcome, replies,
                   exc, runs, fallback, last_block, retry_count, attempts,
                   gave_up, idx, props, reply_ok, history>>

\* upvote(main_post): skipped when the upvote table has the post, otherwise
\* post.commit.vote(...), whose falsy result is only logged
Upvote ==
    /\ pc = "upvote"
    /\ IF AlreadyUpvoted(CurOp.root)
         THEN /\ vote_ok' = TRUE
              /\ UNCHANGED votes
         ELSE /\ votes' = [votes EXCEPT ![CurOp.root] = @ + 1]
              /\ \E resp \in BOOLEAN : vote_ok' = resp
    /\ pc' = "insert"
    /\ UNCHANGED <<head, chain, checkpoint_file, state_file, welcome, upvote, replies,
                   exc, runs, fallback, last_block, retry_count, attempts,
                   gave_up, idx, props, reply_ok, history>>

\* self.get_table('welcome').insert(...), then back to check_block's loop
Insert ==
    /\ pc = "insert"
    /\ welcome' = [welcome EXCEPT ![CurOp.root] = @ + 1]
    /\ pc' = "check_block"
    /\ idx' = idx + 1
    /\ reply_ok' = FALSE
    /\ vote_ok' = FALSE
    /\ UNCHANGED <<head, chain, checkpoint_file, state_file, upvote, replies, votes,
                   exc, runs, fallback, last_block, retry_count, attempts,
                   gave_up, props, history>>

(* ------------------------------ dump_state ----------------------------- *)
\* dump_state, first half: open(STATE, 'w+') truncates the file
OpenState ==
    /\ pc = "state_open"
    /\ state_file' = Truncated
    /\ pc' = "state_write"
    /\ UNCHANGED <<head, chain, checkpoint_file, welcome, upvote, replies, votes,
                   exc, runs, locals, history>>

\* dump_state, second half: f.write(json.dumps(data)); f.close(); process_block returns
WriteState ==
    /\ pc = "state_write"
    /\ state_file' = Written(JsonDumps(props))
    /\ pc' = "return"
    /\ props' = 0
    /\ UNCHANGED <<head, chain, checkpoint_file, welcome, upvote, replies, votes,
                   exc, runs, fallback, last_block, retry_count, attempts, gave_up, idx,
                   reply_ok, vote_ok, history>>

(* ----------------------------- environment ----------------------------- *)
\* the process is terminated from outside, at any point
Terminate ==
    /\ pc # "stopped"
    /\ Exit("killed")

Next ==
    \/ Start
    \/ LoadCheckpoint
    \/ OpenCheckpoint
    \/ WriteCheckpoint
    \/ LoopCheck
    \/ Sleep
    \/ GetBlock
    \/ Return
    \/ CheckBlock
    \/ Reply
    \/ Upvote
    \/ Insert
    \/ OpenState
    \/ WriteState
    \/ Terminate

Spec == Init /\ [][Next]_vars

(* ======================= properties of the program ===================== *)
HasCheckpoint == checkpoint_file.exists /\ checkpoint_file.text # <<>>
CheckpointValue == ParseInt(checkpoint_file.text)
\* the checkpoint a restart would have found before the write in progress, if any
DurableCheckpoint == IF HasCheckpoint THEN CheckpointValue ELSE committed

InProcessBlock ==
    pc \in {"get_block", "return", "check_block", "reply", "upvote", "insert",
            "state_open", "state_write"}

\* a welcome record exists for the author (read off the table itself)
WelcomeRecorded(author) ==
    \E p \in PostIds : PostData[p].author = author /\ welcome[p] > 0

\* the operation is a welcome command that reaches handle_command's pattern
IsCommand(op) ==
    /\ op.type = "comment"
    /\ op.kind = "reply"
    /\ Mentions(op.body)
    /\ MatchesWelcome(op.body)

\* the welcome commands of the chain whose subject is p, from authors not blacklisted
CommandsFor(p) ==
    UNION {{<<n, i>> : i \in {j \in 1..Len(chain[n].ops) :
                                 /\ IsCommand(chain[n].ops[j])
                                 /\ chain[n].ops[j].author \notin BlacklistedUsers
                                 /\ chain[n].ops[j].root = p}} : n \in Blocks}

\* C1: whenever run has handed a sequence number to process_block, that number
\* is exactly the persisted checkpoint + 1, in the first run and after every
\* restart; in particular the first number of a run is the loaded checkpoint + 1.
C1_ResumeAtCheckpointPlusOne ==
    /\ InProcessBlock => HasCheckpoint /\ last_block = CheckpointValue + 1
    /\ run_blocks # <<>> => run_blocks[1] = run_start + 1

\* C1 witness: a restarted run hands out its first block, and the checkpoint it
\* loaded is one that an earlier run processed and saved
C1_Witness ==
    /\ runs = 2
    /\ pc = "get_block"
    /\ Len(run_blocks) = 1
    /\ run_start \in Blocks
    /\ processed[run_start] >= 1

\* C2 (as claimed): every sequence number between the initial fallback head and
\* the checkpoint is processed exactly once, and none is processed twice
C2_ExactlyOnce ==
    \A n \in Blocks :
        /\ processed[n] <= 1
        /\ (seed >= 0 /\ seed < n /\ n <= DurableCheckpoint) => processed[n] = 1

\* C2 (amended): every sequence number above the initial fallback head and up to
\* the persisted checkpoint has been processed at least once, nothing at or
\* below the fallback head and nothing beyond checkpoint + 1 has been processed,
\* and the number in process is above the persisted checkpoint
C2_AtLeastOnceNoGaps ==
    /\ \A n \in Blocks :
        /\ (seed >= 0 /\ seed < n /\ n <= DurableCheckpoint) => processed[n] >= 1
        /\ (n <= seed \/ seed < 0) => processed[n] = 0
        /\ n > DurableCheckpoint + 1 => processed[n] = 0
    /\ InProcessBlock => last_block > DurableCheckpoint

\* C2 witness: a block was processed twice (the process was terminated before
\* its checkpoint was saved) and the checkpoint has since passed it
C2_Witness ==
    \E n \in Blocks : processed[n] = 2 /\ HasCheckpoint /\ CheckpointValue > n

\* C3: within one run the numbers handed to process_block are checkpoint + 1,
\* checkpoint + 2, ... in that order, none exceeds the head the loop condition
\* read, and when the loop finds nothing left the persisted checkpoint is that head
C3_AscendingUpToHead ==
    /\ \A i \in 1..Len(run_blocks) : run_blocks[i] = run_start + i
    /\ (pc = "get_block" /\ attempts = 0) => last_block <= head
    /\ pc = "sleep" =>
         /\ HasCheckpoint
         /\ CheckpointValue = head
         /\ last_block = head
         /\ last_block = run_start + Len(run_blocks)

\* C3 witness: one run processed every block from the first head to the last
\* and is caught up
C3_Witness ==
    /\ pc = "sleep"
    /\ run_start = FirstHead
    /\ Len(run_blocks) = NumBlocks
    /\ CheckpointValue = MaxHead

\* C4: a completed dump_checkpoint never leaves a value smaller than the value
\* the file held before it
C4_CheckpointMonotonic ==
    (HasCheckpoint /\ committed >= 0) => CheckpointValue >= committed

\* C4 witness: after a restart the checkpoint was advanced past the value
\* persisted before
C4_Witness ==
    /\ runs = 2
    /\ HasCheckpoint
    /\ committed >= 0
    /\ CheckpointValue = committed + 1
    /\ pc = "loop"

\* C5: once a welcome record exists for a subject's author, no step submits a
\* further reply or a further vote for that subject
C5_Idempotent ==
    [][\A p \in PostIds :
          WelcomeRecorded(PostData[p].author) =>
              replies'[p] = replies[p] /\ votes'[p] = votes[p]]_vars

\* C5 witness: the unit holding the command is processed a second time with the
\* welcome record committed, and check_block has passed the command again
C5_Witness ==
    /\ pc = "check_block"
    /\ last_block \in Blocks
    /\ processed[last_block] = 2
    /\ \E i \in 1..Len(Ops) :
         /\ i < idx
         /\ IsCommand(Ops[i])
         /\ Ops[i].author \notin BlacklistedUsers
         /\ welcome[Ops[i].root] = 1
         /\ replies[Ops[i].root] = 1

\* C6 (as claimed): a subject post that a single welcome command of the chain
\* names gets at most one reply and at most one vote, whatever the restarts
C6_AtMostOnce ==
    \A p \in PostIds :
        Cardinality(CommandsFor(p)) <= 1 => replies[p] <= 1 /\ votes[p] <= 1

\* C7: a step that submits a reply or a vote, or writes a welcome or upvote
\* record, is never taken for an operation of a blacklisted author
C7_BlacklistPrecedence ==
    [][(replies' # replies \/ votes' # votes \/ welcome' # welcome \/ upvote' # upvote)
          => CurOp.author \notin BlacklistedUsers]_vars

\* C7 witness: check_block has passed a blacklisted author's matching command
\* whose subject author was never welcomed, and nothing was submitted or recorded
C7_Witness ==
    /\ pc = "check_block"
    /\ idx = 2
    /\ IsCommand(Ops[1])
    /\ Ops[1].author \in BlacklistedUsers
    /\ ~WelcomeRecorded(PostData[Ops[1].root].author)
    /\ replies[Ops[1].root] = 0
    /\ votes[Ops[1].root] = 0

\* C8 (as claimed): process_block gives up on a block after exactly 4 fetch attempts
C8_FourAttempts == gave_up => attempts = 4

\* C9 (as claimed): after giving up on a block, process_block returns normally:
\* each frame returns until run saves the checkpoint (unless the process is killed)
C9_SkipReturnsNormally ==
    [][(pc = "return" /\ gave_up) =>
          \/ pc' \in {"return", "checkpoint_open"}
          \/ exc' = "killed"]_vars

\* C10 (as claimed): a welcome command whose subject post cannot be resolved is
\* passed over: check_block goes on to the next operation (unless the process
\* is killed)
C10_MissingPostContained ==
    [][(/\ pc = "check_block"
        /\ idx <= Len(Ops)
        /\ IsCommand(CurOp)
        /\ CurOp.author \notin BlacklistedUsers
        /\ ~PostData[CurOp.root].exists) =>
          \/ pc' = "check_block" /\ idx' = idx + 1
          \/ exc' = "killed"]_vars

\* "@bot", then a run of whitespace whose length is one of gaps, then "!welcome"
MentionGapCommand(body, gaps) ==
    \E i \in 1..Len(body) : \E k \in gaps :
        /\ OccursAt(<<"@", "b", "o", "t">>, body, i)
        /\ i + 3 + k <= Len(body)
        /\ \A j \in 1..k : body[i + 3 + j] \in {" ", "\t", "\n"}
        /\ OccursAt(<<"!", "w", "e", "l", "c", "o", "m", "e">>, body, i + 4 + k)

\* check_block is on a comment that would be answered if its body is
\* recognised: a reply of an author not blacklisted, on a subject that exists
\* and whose author has no welcome record
AwaitsRecognition ==
    /\ pc = "check_block"
    /\ idx <= Len(Ops)
    /\ CurOp.type = "comment"
    /\ CurOp.kind = "reply"
    /\ CurOp.author \notin BlacklistedUsers
    /\ PostData[CurOp.root].exists
    /\ ~WelcomeRecorded(PostData[CurOp.root].author)

\* C11 (as claimed): a body is recognised as a welcome command exactly when it
\* has "@bot", zero or more whitespace characters and "!welcome"
C11_OptionalWhitespace ==
    [][AwaitsRecognition =>
          \/ (pc' = "reply") <=> MentionGapCommand(CurOp.body, 0..Len(CurOp.body))
          \/ exc' = "killed"]_vars

\* C11 (amended): a body is recognised as a welcome command exactly when it has
\* "@bot", exactly one whitespace character and "!welcome"
C11_OneWhitespace ==
    [][AwaitsRecognition =>
          \/ (pc' = "reply") <=> MentionGapCommand(CurOp.body, {1})
          \/ exc' = "killed"]_vars

\* C11 witness: check_block went through the bodies "@bot welcome" and
\* "@bot!welcome" on p1 without a reply, and answered "@bot !welcome" and
\* "hello @bot !welcome friend" on p2
C11_Witness ==
    /\ pc = "check_block"
    /\ Ops = BlkMixed.ops
    /\ idx = Len(Ops) + 1
    /\ processed[last_block] = 1
    /\ replies["p1"] = 0
    /\ replies["p2"] = 2

\* C12 (as claimed): a process that starts never finds a checkpoint file that
\* is there but holds no value
C12_NoTornCheckpoint ==
    (pc = "load_checkpoint" /\ checkpoint_file.exists) => checkpoint_file.text # <<>>

\* the operations of the block in hand that check_block has gone past and
\* that are welcome commands of an author not blacklisted on the subject p
CommandsPassed(p) ==
    {i \in 1..Len(Ops) :
        /\ i < idx
        /\ IsCommand(Ops[i])
        /\ Ops[i].author \notin BlacklistedUsers
        /\ Ops[i].root = p}

\* in the first run of the process: a welcome record is written after one
\* reply and expected[p] votes on its subject p, it is the only record of the
\* subject's author, and every command on an existing root post that
\* check_block has gone past has left its author with a welcome record
FirstWelcomeOutcome(expected) ==
    runs = 1 =>
        /\ \A p \in PostIds :
              welcome[p] > 0 =>
                  /\ welcome[p] = 1
                  /\ replies[p] = 1
                  /\ votes[p] = expected[p]
                  /\ \A q \in PostIds :
                        (PostData[q].author = PostData[p].author /\ welcome[q] > 0) => q = p
        /\ pc = "insert" =>
              /\ replies[CurOp.root] = 1
              /\ votes[CurOp.root] = expected[CurOp.root]
              /\ ~WelcomeRecorded(PostData[CurOp.root].author)
        /\ pc = "check_block" =>
              \A p \in PostIds :
                  (PostData[p].exists /\ PostData[p].main /\ CommandsPassed(p) # {})
                      => WelcomeRecorded(PostData[p].author)

\* C13 (as claimed): the first welcome on a root post of an author not yet
\* welcomed gives exactly one reply, one vote and one welcome record, the
\* record being written after the reply and the vote
C13_OneReplyOneVoteOneRecord ==
    FirstWelcomeOutcome([p \in PostIds |-> 1])

\* C13 (amended): the same, with exactly one vote when the upvote table has no
\* record of the subject and no vote when it has one
C13_OneReplyOneRecord ==
    FirstWelcomeOutcome([p \in PostIds |-> IF p \in upvote THEN 0 ELSE 1])

\* C13 witness: in the first run the record of p1's author has just been
\* written after one reply and one vote on p1
C13_Witness ==
    /\ runs = 1
    /\ pc = "check_block"
    /\ CommandsPassed("p1") # {}
    /\ welcome["p1"] = 1
    /\ replies["p1"] = 1
    /\ votes["p1"] = 1

\* C14 (as claimed): a welcome record is written only when the reply and the
\* upvote step have succeeded
C14_RecordOnlyOnSuccess ==
    [][welcome' # welcome => (reply_ok /\ vote_ok)]_vars

\* C15 (as claimed): when the fetch of a block is empty on the first k
\* attempts, 1 <= k <= 3, and succeeds on attempt k + 1, process_block returns
\* without raising
C15_RetryThenSuccess ==
    [][(pc = "return" /\ ~gave_up /\ attempts \in 2..4)
          => exc' \in {"none", "killed"}]_vars

\* C16: a command whose subject is not a root post gets a reply, no vote and
\* no welcome record, so that every further command on that subject gets
\* another reply
C16_NonRootReplyOnly ==
    \A p \in PostIds :
        (PostData[p].exists /\ ~PostData[p].main) =>
            /\ votes[p] = 0
            /\ welcome[p] = 0
            /\ ~WelcomeRecorded(PostData[p].author)
            /\ pc = "check_block" => replies[p] >= Cardinality(CommandsPassed(p))

\* C16 witness: two commands on the reply p2 in one block, two replies, no
\* vote and no record
C16_Witness ==
    /\ pc = "check_block"
    /\ Cardinality(CommandsPassed("p2")) = 2
    /\ replies["p2"] = 2
    /\ votes["p2"] = 0
    /\ welcome["p2"] = 0

\* C17 (as claimed): the snapshot is persisted only for a sequence number
\* whose checkpoint has been saved
C17_CheckpointBeforeSnapshot ==
    [][state_file' # state_file => (HasCheckpoint /\ CheckpointValue = last_block)]_vars

\* C17 (amended): the snapshot of a sequence number is persisted after all
\* its operations went through the command processor and while the persisted
\* checkpoint is still that number - 1; the checkpoint is saved only after
\* process_block is over
C17_SnapshotBeforeCheckpoint ==
    /\ [](pc \in {"state_open", "state_write"} =>
             /\ idx = Len(Ops) + 1
             /\ processed[last_block] >= 1
             /\ HasCheckpoint
             /\ CheckpointValue = last_block - 1)
    /\ [][checkpoint_file' # checkpoint_file => ~InProcessBlock]_vars

\* C17 witness: the snapshot of a block with operations is being written and
\* the persisted checkpoint is the number before it
C17_Witness ==
    /\ pc = "state_write"
    /\ Len(Ops) > 1
    /\ state_file = Truncated
    /\ HasCheckpoint
    /\ CheckpointValue = last_block - 1

\* C18 (as claimed): the loop has no terminal state, a process that is not
\* terminated from outside never stops
C18_NoTerminalState ==
    runs = 1 => (pc = "stopped" => exc \in {"none", "killed"})

\* C19: the welcome table holds at most one record per author
C19_OneRecordPerAuthor ==
    \A p \in PostIds :
        /\ welcome[p] <= 1
        /\ \A q \in PostIds :
              (PostData[q].author = PostData[p].author /\ welcome[p] > 0 /\ welcome[q] > 0)
                  => q = p

\* C19 witness: after a restart, with the record of p1's author written,
\* check_block has gone past a command on p3 of the same author
C19_Witness ==
    /\ runs = 2
    /\ pc = "check_block"
    /\ welcome["p1"] = 1
    /\ CommandsPassed("p3") # {}
    /\ welcome["p3"] = 0
    /\ replies["p3"] = 0

\* C20: no step writes the upvote table
C20_UpvoteTableUnchanged ==
    [][upvote' = upvote]_vars

\* C20 witness: a vote on a post without an upvote record was submitted and
\* accepted, and the table still has no record of it
C20_Witness ==
    /\ pc = "insert"
    /\ vote_ok
    /\ votes[CurOp.root] = 1
    /\ CurOp.root \notin upvote

====
